---- MODULE Spec2Model ----
(***************************************************************************)
(* Model of the heterogeneous load-balancer simulator: the tick loop of    *)
(* simulator._simulate_one, the arrival source (client.Client.observe),    *)
(* the two load-balancing policies of load_balancer.py and the             *)
(* capacity-constrained AcceleratorReplica.step of replica.py.             *)
(*                                                                         *)
(* Traffic objects live in the heap `traffics`, indexed by the id that     *)
(* utils.add_unique_id gives them; lists of Traffic are sequences of ids.  *)
(***************************************************************************)
EXTENDS Integers, Sequences, FiniteSets, TLC

\* ------------------------------------------------------------------ bounds
\* Total number of Traffic objects the arrival source creates in a run.
MaxTraffic == 2
\* Largest list one call of observe() returns.
MaxNewPerTick == 2
\* Largest number of replicas registered with the load balancer.
MaxReplicas == 2
\* Last tick at which the arrival source still produces Traffic.
LastArrivalTick == 1

\* Python's None for the optional integer fields.
None == -1

\* Largest execution_time of a Traffic of an ordinary run.
MaxExec == 2
\* Largest burst_size of a BurstyClient.
MaxBurst == 3
\* Largest current_tick given to Traffic.finished.
MaxCallTick == 3
\* workload_candidates of the client of an ordinary run.
ExecTimes == {0, 1, MaxExec}
\* traffic_expired_time values a client may be configured with.
ExpiredTimes == {None, 2}
\* period_tick values a client may be configured with.
PeriodTicks == {1, 2}

\* LB_POLICIES registry names.
LB_POLICIES == {"round_robin", "least_load"}
\* The registry of replica.py after import.
REPLICA_TYPES == {"accelerator"}
\* Python None where a policy or type name is expected.
NoName == "None"
\* The names given to the factories: None, the registered names and one
\* that is not registered.
LbTypeNames == {NoName, "unknown"} \cup LB_POLICIES
ReplicaTypeNames == {NoName, "unknown"} \cup REPLICA_TYPES

VARIABLES
    tick,               \* Clock.tick
    pc,                 \* position of _simulate_one inside the while loop
    max_id,             \* Traffic._max_id
    traffics,           \* heap: id -> Traffic object
    period_tick,        \* Client.period_tick
    traffic_expired_time, \* Client.traffic_expired_time
    workload_candidates, \* RandomChoiceWorkloadClient.workload_candidates
    policy,             \* which LoadBalancer subclass lb is
    replicas,           \* lb.replicas: accelerator value of each replica
    idx,                \* RoundRobinLoadBalancer.idx
    queue,              \* Replica.queue of each replica
    new_traffic,        \* local new_traffic of the loop body
    replica2traffics,   \* local replica2traffics of the loop body
    rpos,               \* position of the loop over replica2traffics.items()
    finished_traffics,  \* local finished_traffics of the loop body
    log,                \* the tick_info records written so far
    burst_size,         \* BurstyClient.burst_size (0: no such client)
    burst_interval,     \* BurstyClient.burst_interval
    lb_type,            \* lb_config.get("type") of setup_simulation
    replica_type,       \* replica.get("type") of setup_simulation
    client_config,      \* execution_time (or None) of the traffics argument
                        \* of FixedTrafficClient
    client_traffics,    \* FixedTrafficClient.traffics: ids of the templates
    client_idx,         \* FixedTrafficClient.idx
    run,                \* number of the run of this process
    first_log,          \* the tick_info records of the first run
    probe,              \* a Traffic object on which finished is called
    current_tick,       \* current_tick of the last call of probe.finished
    ret                 \* what the last call of probe.finished returned

vars == <<tick, pc, max_id, traffics, period_tick, traffic_expired_time,
          workload_candidates,
          policy, replicas, idx, queue, new_traffic, replica2traffics, rpos,
          finished_traffics, log, burst_size, burst_interval, lb_type,
          replica_type, client_config, client_traffics, client_idx, run,
          first_log, probe, current_tick, ret>>

\* What the set-up fixes for the whole run besides the fields above.
configVars == <<burst_size, burst_interval, lb_type, replica_type>>

\* The Traffic object calls of finished are made on, outside a run.
callVars == <<probe, current_tick, ret>>

\* The FixedTrafficClient and the runs the process has made.
processVars == <<client_config, client_traffics, client_idx, run, first_log>>

\* ------------------------------------------------------------ pure helpers
Min(a, b) == IF a <= b THEN a ELSE b
Max(a, b) == IF a >= b THEN a ELSE b

\* All sequences over S of length at most n.
SeqsUpTo(S, n) == UNION {[1..k -> S] : k \in 0..n}

\* Set of the elements of a sequence.
Range(s) == {s[i] : i \in 1..Len(s)}

\* Largest element of a non-empty set of integers.
MaxOf(S) == CHOOSE x \in S : \A y \in S : y <= x

\* utils.AcceleratorType: the enum values are the compute per tick.
\* Clock.__init__: the tick before the first step.
ClockInit == -1

ClockStep_Twice(t) == t + 2

\* Clock.step: self.tick += 1; return self.tick
ClockStep(t) == t + 1

LoopEnds_OneLate(t, m) == t > m

\* if max_tick is not None and tick >= max_tick: break
LoopEnds(t, m) == t >= m

A100 == 10
T4 == 1
AcceleratorType == {A100, T4}

\* workload_candidates of the client of a run with Traffic larger than
\* the compute of any accelerator.
HeavyExecTimes == {3, A100 + 1}

\* random.randint(1, 5): the execution_time of the Traffic of a burst.
BurstExecTimes == 1..5

\* max_tick of the run: late enough for every queue to drain after the
\* last arrival (the head of a queue finishes within its execution_time
\* ticks, one tick for execution_time 0).
max_tick == LastArrivalTick + MaxTraffic * MaxOf(workload_candidates \cup {1})

\* ------------------------------------------------------------------ Traffic
\* Traffic.__init__
Traffic(execution_time) ==
    [execution_time |-> execution_time,
     remaining_processing_time |-> execution_time,
     start_time |-> None,
     finish_time |-> None,
     expired_time |-> None,
     expired |-> FALSE]

\* Traffic.set_start_time
set_start_time(t, start_time) == [t EXCEPT !.start_time = start_time]

\* Traffic.set_expired_time
set_expired_time(t, expired_time) == [t EXCEPT !.expired_time = expired_time]

\* Variant of set_finish_time: the field is not written.
set_finish_time_Forgotten(t, finished_time) == t

\* Traffic.set_finish_time
set_finish_time(t, finished_time) == [t EXCEPT !.finish_time = finished_time]

\* Variant of finished: the deadline tick itself is not yet too late.
finished_AfterDeadline(t, tick_arg) ==
    IF t.remaining_processing_time <= 0 THEN [ret |-> TRUE, traffic |-> t]
    ELSE IF /\ t.start_time # None
            /\ t.expired_time # None
            /\ tick_arg > t.start_time + t.expired_time
         THEN [ret |-> TRUE, traffic |-> [t EXCEPT !.expired = TRUE]]
         ELSE [ret |-> FALSE, traffic |-> t]

\* Traffic.finished: the value returned and the object after the call.
finished(t, tick_arg) ==
    IF t.remaining_processing_time <= 0 THEN [ret |-> TRUE, traffic |-> t]
    ELSE IF /\ t.start_time # None
            /\ t.expired_time # None
            /\ tick_arg >= t.start_time + t.expired_time
         THEN [ret |-> TRUE, traffic |-> [t EXCEPT !.expired = TRUE]]
         ELSE [ret |-> FALSE, traffic |-> t]

\* Variant of latency: the tick of admission is counted as well.
latency_Inclusive(t) ==
    IF t.finish_time = None \/ t.start_time = None
    THEN None
    ELSE t.finish_time - t.start_time + 1

\* Traffic.latency
latency(t) ==
    IF t.finish_time = None \/ t.start_time = None
    THEN None
    ELSE t.finish_time - t.start_time

\* ------------------------------------------------------------------ Replica
\* Variant of Extend: the incoming list is appended twice.
Extend_Twice(q, ts) == (q \o ts) \o ts

\* Variant of Extend: the incoming items are put ahead of the queue.
Extend_Front(q, ts) == ts \o q

\* list.extend as used by Replica.step
Extend(q, ts) == q \o ts

\* Variant of ListRemove: the list is left as it is.
ListRemove_Keep(q, x) == q

\* list.remove(x): drops the first occurrence of x
RECURSIVE ListRemove(_, _)
ListRemove(q, x) ==
    IF q = <<>> THEN <<>>
    ELSE IF Head(q) = x THEN Tail(q)
    ELSE <<Head(q)>> \o ListRemove(Tail(q), x)

\* Variant of ComputeOnTraffic: the budget is taken to be the compute used.
ComputeOnTraffic_UsedAsBudget(remaining, tot_compute_used, capacity) ==
    Min(remaining, tot_compute_used)

\* Variant of ComputeOnTraffic: the whole capacity, whatever remains.
ComputeOnTraffic_Capacity(remaining, tot_compute_used, capacity) ==
    capacity

\* Variant of ComputeOnTraffic: the larger of the two instead of the
\* smaller.
ComputeOnTraffic_Larger(remaining, tot_compute_used, capacity) ==
    Max(remaining - tot_compute_used, capacity)

\* The compute given to one Traffic in the allocation loop.
ComputeOnTraffic(remaining, tot_compute_used, capacity) ==
    Min(remaining - tot_compute_used, capacity)

\* The allocation loop of AcceleratorReplica.step, from queue position i on.
RECURSIVE Allocate(_, _, _, _, _)
Allocate(q, i, heap, tot_compute_used, capacity) ==
    IF i > Len(q) THEN heap
    ELSE LET compute_on_traffic ==
                 ComputeOnTraffic(heap[q[i]].remaining_processing_time,
                                  tot_compute_used, capacity)
             heap2 == [heap EXCEPT ![q[i]].remaining_processing_time =
                                       @ - compute_on_traffic]
             used2 == tot_compute_used + compute_on_traffic
         IN  IF used2 = capacity THEN heap2
             ELSE Allocate(q, i + 1, heap2, used2, capacity)

\* The completion loop of AcceleratorReplica.step: a Python for loop over
\* self.queue that removes from self.queue while iterating; the iterator
\* keeps a position i, so the item following a removed one is not visited.
RECURSIVE Sweep(_, _, _, _)
Sweep(q, i, heap, fin) ==
    IF i > Len(q) THEN [queue |-> q, finished |-> fin]
    ELSE IF heap[q[i]].remaining_processing_time = 0
         THEN Sweep(ListRemove(q, q[i]), i + 1, heap, Append(fin, q[i]))
         ELSE Sweep(q, i + 1, heap, fin)

\* Stamp finish_time on every returned Traffic.
RECURSIVE StampFinish(_, _, _)
StampFinish(heap, fin, now) ==
    IF fin = <<>> THEN heap
    ELSE StampFinish([heap EXCEPT ![Head(fin)] = set_finish_time(@, now)],
                     Tail(fin), now)

\* AcceleratorReplica.step: the new queue, the returned list, the new heap.
AcceleratorReplicaStep(q, ts, heap, capacity, now) ==
    LET q1 == Extend(q, ts)
        heap1 == Allocate(q1, 1, heap, 0, capacity)
        sw == Sweep(q1, 1, heap1, <<>>)
    IN  [queue |-> sw.queue,
         finished |-> sw.finished,
         heap |-> StampFinish(heap1, sw.finished, now)]

\* ------------------------------------------------------------- factories
\* cls._default_lb_policy: __init_subclass__ assigns it on the subclass
\* declared with default=True; every other class reads the None of
\* LoadBalancer.
DefaultLbPolicy(cls) ==
    IF cls = "RoundRobinLoadBalancer" THEN "round_robin" ELSE NoName

\* The module-level DEFAULT_REPLICA_TYPE, which nothing assigns.
DEFAULT_REPLICA_TYPE == NoName

\* The name cls.make(policy_name) looks up in LB_POLICIES.
LbLookup(cls, policy_name) ==
    IF policy_name = NoName THEN DefaultLbPolicy(cls) ELSE policy_name

\* The name Replica.make(type_name) looks up in REPLICA_TYPES.
ReplicaLookup(type_name) ==
    IF type_name = NoName THEN DEFAULT_REPLICA_TYPE ELSE type_name

\* Whether the two factory calls of setup_simulation raise ValueError.
MakeRaises(lb_name, replica_name) ==
    ~(/\ LbLookup("LoadBalancer", lb_name) \in LB_POLICIES
      /\ ReplicaLookup(replica_name) \in REPLICA_TYPES)

\* ------------------------------------------------------------- LoadBalancer
\* The empty mapping built by the dict comprehension of both step methods.
EmptyAssignment(n) == [r \in 1..n |-> <<>>]

\* Variant of Assign: the list of the replica is overwritten.
Assign_Overwrite(r2t, r, t) == [r2t EXCEPT ![r] = <<t>>]

\* replica2traffics[replica].append(t)
Assign(r2t, r, t) == [r2t EXCEPT ![r] = Append(@, t)]

\* Variant of NextIdx: the cursor is not advanced.
NextIdx_Stuck(i, n) == i % n

\* Cursor advance of RoundRobinLoadBalancer.step
NextIdx(i, n) == (i + 1) % n

\* RoundRobinLoadBalancer.step; idx is 0-based as in the code, replicas are
\* numbered from 1 in registration order.
RECURSIVE RoundRobinStep(_, _, _, _)
RoundRobinStep(ts, i, n, r2t) ==
    IF ts = <<>> THEN [idx |-> i, replica2traffics |-> r2t]
    ELSE RoundRobinStep(Tail(ts), NextIdx(i, n), n,
                        Assign(r2t, i + 1, Head(ts)))

\* _get_replica_queue_length
ReplicaQueueLength(r, q, r2t) == Len(q[r]) + Len(r2t[r])

\* Variant of MinReplica: the last replica with the smallest key.
MinReplica_Last(n, q, r2t) ==
    CHOOSE r \in 1..n :
        /\ \A s \in 1..n :
               ReplicaQueueLength(r, q, r2t) <= ReplicaQueueLength(s, q, r2t)
        /\ \A s \in (r + 1)..n :
               ReplicaQueueLength(s, q, r2t) > ReplicaQueueLength(r, q, r2t)

\* min(self.replicas, key=...): the first replica with the smallest key
MinReplica(n, q, r2t) ==
    CHOOSE r \in 1..n :
        /\ \A s \in 1..n :
               ReplicaQueueLength(r, q, r2t) <= ReplicaQueueLength(s, q, r2t)
        /\ \A s \in 1..(r - 1) :
               ReplicaQueueLength(s, q, r2t) > ReplicaQueueLength(r, q, r2t)

\* LeastLoadLoadBalancer.step
RECURSIVE LeastLoadStep(_, _, _, _)
LeastLoadStep(ts, n, q, r2t) ==
    IF ts = <<>> THEN r2t
    ELSE LET sel == MinReplica(n, q, r2t)
         IN  LeastLoadStep(Tail(ts), n, q, Assign(r2t, sel, Head(ts)))

\* ----------------------------------------------------------------- clients
\* The Traffic objects one observe() call creates and stamps.
RECURSIVE NewTraffics(_, _, _, _)
NewTraffics(heap, execs, now, expired_time) ==
    IF execs = <<>> THEN heap
    ELSE NewTraffics(
             heap @@ (Len(heap) + 1 :>
                 set_expired_time(set_start_time(Traffic(Head(execs)), now),
                                  expired_time)),
             Tail(execs), now, expired_time)

\* The traffics list of a FixedTrafficClient built from config: every
\* Traffic(execution_time) in it takes the next id.
RECURSIVE MakeTemplates(_, _, _)
MakeTemplates(heap, config, made) ==
    IF config = <<>> THEN [heap |-> heap, traffics |-> made]
    ELSE IF Head(config) = None
         THEN MakeTemplates(heap, Tail(config), Append(made, None))
         ELSE MakeTemplates(Append(heap, Traffic(Head(config))), Tail(config),
                            Append(made, Len(heap) + 1))

\* copy.deepcopy(cur): __reduce__ of add_unique_id builds an object with
\* the state of cur and the next id.
DeepCopy(heap, cur) ==
    [heap |-> Append(heap, heap[cur]), id |-> Len(heap) + 1]

\* ------------------------------------------------------------------- state
\* The state after the set-up part of _simulate_one, for a client that
\* draws the execution_time of its Traffic from candidates.
InitRun(candidates, replica_lists) ==
    /\ tick = ClockInit
    /\ current_tick = 0
    /\ ret = FALSE
    /\ run = 1
    /\ first_log = <<>>
    /\ client_traffics = <<>>
    /\ client_idx = 0
    /\ max_id = 0
    /\ traffics = <<>>
    /\ period_tick \in PeriodTicks
    /\ traffic_expired_time \in ExpiredTimes
    /\ workload_candidates = candidates
    /\ replicas \in replica_lists
    /\ idx = 0
    /\ queue = [r \in 1..Len(replicas) |-> <<>>]
    /\ new_traffic = <<>>
    /\ replica2traffics = <<>>
    /\ rpos = 0
    /\ finished_traffics = <<>>
    /\ log = <<>>

\* No Traffic is kept aside for calls of finished.
NoProbe == probe = Traffic(0)

\* lb and the replicas were constructed directly, as in dummy_simulate,
\* and the loop is about to start.
Built ==
    /\ pc = "observe"
    /\ policy \in LB_POLICIES
    /\ lb_type = NoName
    /\ replica_type = NoName

\* The same with at least one replica registered.
InitWith(candidates) ==
    /\ InitRun(candidates, SeqsUpTo(AcceleratorType, MaxReplicas) \ {<<>>})
    /\ NoProbe
    /\ Built

\* The run has no BurstyClient.
NoBurstyClient == burst_size = 0 /\ burst_interval = 1

\* The run has no FixedTrafficClient.
NoFixedTrafficClient == client_config = <<>>

Init == InitWith(ExecTimes) /\ NoBurstyClient /\ NoFixedTrafficClient

\* The same with a client constructed with the defaults of Client.__init__
\* for period_tick and traffic_expired_time.
InitDefaultClient(candidates) ==
    /\ InitWith(candidates)
    /\ period_tick = 1
    /\ traffic_expired_time = None

InitLive ==
    InitDefaultClient(ExecTimes) /\ NoBurstyClient /\ NoFixedTrafficClient

InitHeavy ==
    /\ InitDefaultClient(HeavyExecTimes)
    /\ NoBurstyClient
    /\ NoFixedTrafficClient

\* _simulate_one called with replicas = []: nothing is registered.
InitNoReplica ==
    /\ InitRun(ExecTimes, {<<>>})
    /\ NoProbe
    /\ Built
    /\ NoBurstyClient
    /\ NoFixedTrafficClient

\* setup_simulation before its factory calls, with a client constructed
\* with the defaults and the accelerators of replicas_config in replicas.
InitSetup ==
    /\ InitRun(ExecTimes, SeqsUpTo(AcceleratorType, MaxReplicas) \ {<<>>})
    /\ NoProbe
    /\ period_tick = 1
    /\ traffic_expired_time = None
    /\ NoBurstyClient
    /\ NoFixedTrafficClient
    /\ pc = "setup"
    /\ policy = NoName
    /\ lb_type \in LbTypeNames
    /\ replica_type \in ReplicaTypeNames

\* A run whose only client is a BurstyClient with one burst, at tick 0.
InitBursty ==
    /\ InitDefaultClient({})
    /\ burst_size \in 1..MaxBurst
    /\ burst_interval = max_tick + 1
    /\ NoFixedTrafficClient

\* The Traffic objects finished is called on: constructed, possibly
\* stamped by a client, partly or fully processed, and given a finish_time
\* when they were returned by a replica.
ProbeTraffics ==
    {t \in {[Traffic(e) EXCEPT !.remaining_processing_time = r,
                               !.start_time = st, !.expired_time = x,
                               !.finish_time = f] :
                e \in ExecTimes, r \in 0..MaxExec, st \in {None, 0, 1},
                x \in ExpiredTimes, f \in {None, 1}} :
        /\ t.remaining_processing_time <= t.execution_time
        /\ t.finish_time # None
               => (t.remaining_processing_time = 0 /\ t.start_time # None)}

\* No run: only calls of finished on one Traffic object.
InitFinished ==
    /\ InitRun({}, {<<>>})
    /\ period_tick = 1
    /\ traffic_expired_time = None
    /\ NoBurstyClient
    /\ NoFixedTrafficClient
    /\ pc = "call"
    /\ policy = "round_robin"
    /\ lb_type = NoName
    /\ replica_type = NoName
    /\ probe \in ProbeTraffics

\* A fresh process about to construct a FixedTrafficClient with the
\* defaults of Client.__init__ and to run it with lb and the replicas.
InitTwoRuns ==
    /\ InitRun({}, SeqsUpTo(AcceleratorType, MaxReplicas) \ {<<>>})
    /\ NoProbe
    /\ period_tick = 1
    /\ traffic_expired_time = None
    /\ NoBurstyClient
    /\ pc = "client"
    /\ policy \in LB_POLICIES
    /\ lb_type = NoName
    /\ replica_type = NoName
    /\ client_config \in SeqsUpTo(ExecTimes \cup {None}, MaxTraffic) \ {<<>>}

\* lb = LoadBalancer.make(lb_type), the Replica.make calls and the call of
\* _simulate_one.
Setup ==
    /\ pc = "setup"
    /\ ~MakeRaises(lb_type, replica_type)
    /\ policy' = LbLookup("LoadBalancer", lb_type)
    /\ pc' = "observe"
    /\ UNCHANGED configVars
    /\ UNCHANGED callVars
    /\ UNCHANGED processVars
    /\ UNCHANGED <<tick, max_id, traffics, period_tick, traffic_expired_time,
                   workload_candidates, replicas, idx, queue, new_traffic,
                   replica2traffics, rpos, finished_traffics, log>>

\* One of the factory calls raises ValueError.
SetupRaises ==
    /\ pc = "setup"
    /\ MakeRaises(lb_type, replica_type)
    /\ pc' = "ValueError"
    /\ UNCHANGED configVars
    /\ UNCHANGED callVars
    /\ UNCHANGED processVars
    /\ UNCHANGED <<tick, max_id, traffics, period_tick, traffic_expired_time,
                   workload_candidates, policy, replicas, idx, queue,
                   new_traffic, replica2traffics, rpos, finished_traffics,
                   log>>

\* clock.step() and the loop over clients calling observe().
Observe ==
    /\ pc = "observe"
    /\ tick' = ClockStep(tick)
    /\ \E execs \in SeqsUpTo(workload_candidates, MaxNewPerTick) :
           /\ Len(execs) <= MaxTraffic - max_id
           /\ tick' > LastArrivalTick => execs = <<>>
           /\ tick' % period_tick # 0 => execs = <<>>
           /\ traffics' = NewTraffics(traffics, execs, tick',
                                      traffic_expired_time)
           /\ max_id' = max_id + Len(execs)
           /\ new_traffic' = [i \in 1..Len(execs) |-> max_id + i]
    /\ pc' = "lb"
    /\ UNCHANGED configVars
    /\ UNCHANGED callVars
    /\ UNCHANGED processVars
    /\ UNCHANGED <<period_tick, traffic_expired_time, workload_candidates, policy, replicas, idx,
                   queue, replica2traffics, rpos, finished_traffics, log>>

\* clock.step() and observe() of a BurstyClient: burst_size Traffic with
\* execution times from random.randint(1, 5) when tick % burst_interval = 0.
ObserveBursty ==
    /\ pc = "observe"
    /\ tick' = ClockStep(tick)
    /\ \E execs \in SeqsUpTo(BurstExecTimes, burst_size) :
           /\ Len(execs) = IF /\ tick' % period_tick = 0
                              /\ tick' % burst_interval = 0
                           THEN burst_size ELSE 0
           /\ traffics' = NewTraffics(traffics, execs, tick',
                                      traffic_expired_time)
           /\ max_id' = max_id + Len(execs)
           /\ new_traffic' = [i \in 1..Len(execs) |-> max_id + i]
    /\ pc' = "lb"
    /\ UNCHANGED configVars
    /\ UNCHANGED callVars
    /\ UNCHANGED processVars
    /\ UNCHANGED <<period_tick, traffic_expired_time, workload_candidates,
                   policy, replicas, idx, queue, replica2traffics, rpos,
                   finished_traffics, log>>

\* FixedTrafficClient(traffics=...) with the defaults of Client.__init__.
MakeClient ==
    /\ pc = "client"
    /\ LET res == MakeTemplates(traffics, client_config, <<>>)
       IN  /\ traffics' = res.heap
           /\ max_id' = Len(res.heap)
           /\ client_traffics' = res.traffics
    /\ client_idx' = 0
    /\ pc' = "observe"
    /\ UNCHANGED configVars
    /\ UNCHANGED callVars
    /\ UNCHANGED <<tick, period_tick, traffic_expired_time,
                   workload_candidates, policy, replicas, idx, queue,
                   new_traffic, replica2traffics, rpos, finished_traffics,
                   log, client_config, run, first_log>>

\* clock.step() and observe() of a FixedTrafficClient.
ObserveFixed ==
    /\ pc = "observe"
    /\ tick' = ClockStep(tick)
    /\ IF tick' % period_tick = 0
       THEN LET cur == client_traffics[client_idx + 1]
                res == DeepCopy(traffics, cur)
            IN  /\ client_idx' = (client_idx + 1) % Len(client_traffics)
                /\ IF cur # None
                   THEN /\ traffics' =
                               [res.heap EXCEPT ![res.id] =
                                   set_expired_time(set_start_time(@, tick'),
                                                    traffic_expired_time)]
                        /\ max_id' = Len(res.heap)
                        /\ new_traffic' = <<res.id>>
                   ELSE /\ new_traffic' = <<>>
                        /\ UNCHANGED <<traffics, max_id>>
       ELSE /\ new_traffic' = <<>>
            /\ UNCHANGED <<traffics, max_id, client_idx>>
    /\ pc' = "lb"
    /\ UNCHANGED configVars
    /\ UNCHANGED callVars
    /\ UNCHANGED <<period_tick, traffic_expired_time, workload_candidates,
                   policy, replicas, idx, queue, replica2traffics, rpos,
                   finished_traffics, log, client_config, client_traffics,
                   run, first_log>>

\* The same process starts a second run with the same configuration: a new
\* Clock, load balancer, replicas and client, and the Traffic._max_id the
\* first run left.
Restart ==
    /\ pc = "done"
    /\ run = 1
    /\ run' = 2
    /\ first_log' = log
    /\ log' = <<>>
    /\ tick' = ClockInit
    /\ idx' = 0
    /\ queue' = [r \in 1..Len(replicas) |-> <<>>]
    /\ client_traffics' = <<>>
    /\ client_idx' = 0
    /\ pc' = "client"
    /\ UNCHANGED configVars
    /\ UNCHANGED callVars
    /\ UNCHANGED <<max_id, traffics, period_tick, traffic_expired_time,
                   workload_candidates, policy, replicas, new_traffic,
                   replica2traffics, rpos, finished_traffics, client_config>>

\* ret = probe.finished(current_tick), with a current_tick that is not
\* earlier than the one of the call before.
FinishedCall ==
    /\ pc = "call"
    /\ \E tick_arg \in current_tick..MaxCallTick :
           /\ current_tick' = tick_arg
           /\ ret' = finished(probe, tick_arg).ret
           /\ probe' = finished(probe, tick_arg).traffic
    /\ UNCHANGED configVars
    /\ UNCHANGED processVars
    /\ UNCHANGED <<tick, pc, max_id, traffics, period_tick,
                   traffic_expired_time, workload_candidates, policy,
                   replicas, idx, queue, new_traffic, replica2traffics, rpos,
                   finished_traffics, log>>

\* replica2traffics = lb.step(new_traffic)
LBStep ==
    /\ pc = "lb"
    /\ ~(Len(replicas) = 0 /\ new_traffic # <<>>)
    /\ IF policy = "round_robin"
       THEN LET res == RoundRobinStep(new_traffic, idx, Len(replicas),
                                      EmptyAssignment(Len(replicas)))
            IN  /\ replica2traffics' = res.replica2traffics
                /\ idx' = res.idx
       ELSE /\ replica2traffics' =
                   LeastLoadStep(new_traffic, Len(replicas), queue,
                                 EmptyAssignment(Len(replicas)))
            /\ idx' = idx
    /\ finished_traffics' = <<>>
    /\ rpos' = 1
    /\ pc' = IF Len(replicas) = 0 THEN "emit" ELSE "replicas"
    /\ UNCHANGED configVars
    /\ UNCHANGED callVars
    /\ UNCHANGED processVars
    /\ UNCHANGED <<tick, max_id, traffics, period_tick, traffic_expired_time,
                   workload_candidates, policy, replicas, queue, new_traffic, log>>

\* lb.step(new_traffic) with no replica registered and Traffic to assign:
\* self.replicas[self.idx] raises IndexError in RoundRobinLoadBalancer,
\* min() of an empty sequence raises ValueError in LeastLoadLoadBalancer.
LBStepRaises ==
    /\ pc = "lb"
    /\ Len(replicas) = 0
    /\ new_traffic # <<>>
    /\ pc' = IF policy = "round_robin" THEN "IndexError" ELSE "ValueError"
    /\ UNCHANGED configVars
    /\ UNCHANGED callVars
    /\ UNCHANGED processVars
    /\ UNCHANGED <<tick, max_id, traffics, period_tick, traffic_expired_time,
                   workload_candidates, policy, replicas, idx, queue,
                   new_traffic, replica2traffics, rpos, finished_traffics,
                   log>>

\* One iteration of the loop over replica2traffics.items().
ReplicaStep ==
    /\ pc = "replicas"
    /\ rpos <= Len(replicas)
    /\ LET res == AcceleratorReplicaStep(queue[rpos], replica2traffics[rpos],
                                         traffics, replicas[rpos], tick)
       IN  /\ queue' = [queue EXCEPT ![rpos] = res.queue]
           /\ traffics' = res.heap
           /\ finished_traffics' = finished_traffics \o res.finished
    /\ rpos' = rpos + 1
    /\ pc' = IF rpos = Len(replicas) THEN "emit" ELSE "replicas"
    /\ UNCHANGED configVars
    /\ UNCHANGED callVars
    /\ UNCHANGED processVars
    /\ UNCHANGED <<tick, max_id, period_tick, traffic_expired_time,
                   workload_candidates, policy,
                   replicas, idx, new_traffic, replica2traffics, log>>

TickInfo_NextTick ==
    [tick |-> tick + 1,
     finished_traffics |->
         [i \in 1..Len(finished_traffics) |->
             <<finished_traffics[i],
               latency(traffics[finished_traffics[i]]),
               traffics[finished_traffics[i]].expired>>]]

\* The tick_info record of the current tick.
TickInfo ==
    [tick |-> tick,
     finished_traffics |->
         [i \in 1..Len(finished_traffics) |->
             <<finished_traffics[i],
               latency(traffics[finished_traffics[i]]),
               traffics[finished_traffics[i]].expired>>]]

\* Writing the tick_info record and the max_tick test that ends the loop.
Emit ==
    /\ pc = "emit"
    /\ log' = Append(log, TickInfo)
    /\ pc' = IF LoopEnds(tick, max_tick) THEN "done" ELSE "observe"
    /\ new_traffic' = <<>>
    /\ replica2traffics' = <<>>
    /\ finished_traffics' = <<>>
    /\ rpos' = 0
    /\ UNCHANGED configVars
    /\ UNCHANGED callVars
    /\ UNCHANGED processVars
    /\ UNCHANGED <<tick, max_id, traffics, period_tick, traffic_expired_time,
                   workload_candidates, policy, replicas, idx, queue>>

Next == Observe \/ LBStep \/ ReplicaStep \/ Emit

Spec == Init /\ [][Next]_vars

\* The loop is sequential code: whenever an iteration step is possible it is
\* taken.
SpecLive == InitLive /\ [][Next]_vars /\ WF_vars(Next)

\* Runs of a client whose Traffic can exceed the compute of an accelerator.
SpecHeavy == InitHeavy /\ [][Next]_vars

NextNoReplica == Observe \/ LBStep \/ LBStepRaises \/ Emit

\* Runs of _simulate_one with an empty list of replicas.
SpecNoReplica == InitNoReplica /\ [][NextNoReplica]_vars

NextSetup ==
    Setup \/ SetupRaises \/ Observe \/ LBStep \/ ReplicaStep \/ Emit

\* Runs started through setup_simulation.
SpecSetup == InitSetup /\ [][NextSetup]_vars

NextTwoRuns ==
    MakeClient \/ ObserveFixed \/ LBStep \/ ReplicaStep \/ Emit \/ Restart

\* Two runs of a FixedTrafficClient configuration in one process.
SpecTwoRuns == InitTwoRuns /\ [][NextTwoRuns]_vars

NextFinished == FinishedCall

\* Calls of Traffic.finished on one object with non-decreasing ticks.
SpecFinished == InitFinished /\ [][NextFinished]_vars

NextBursty == ObserveBursty \/ LBStep \/ ReplicaStep \/ Emit

\* Runs of a BurstyClient.
SpecBursty == InitBursty /\ [][NextBursty]_vars
\* ------------------------------------------------------------- properties
\* Ids in the finished_traffics list of the k-th tick_info record.
LoggedIds(k) ==
    {log[k].finished_traffics[j][1] :
        j \in 1..Len(log[k].finished_traffics)}

\* Traffic i is in the finished_traffics of some tick_info record.
Logged(i) == \E k \in 1..Len(log) : i \in LoggedIds(k)

\* Number of places of the log where Traffic i is reported.
LogCount(i) ==
    Cardinality({<<k, j>> \in (1..Len(log)) \X (1..MaxTraffic) :
                    /\ j <= Len(log[k].finished_traffics)
                    /\ log[k].finished_traffics[j][1] = i})

\* Ids held by the queue of any replica.
Queued == UNION {Range(queue[r]) : r \in 1..Len(queue)}

\* C1: conservation (liveness). Every Traffic returned by observe() is
\* eventually returned by a Replica.step and so reported in the
\* finished_traffics of a tick_info record, when the arrivals are finite
\* and max_tick leaves the queues time to drain.
C1_Conservation ==
    [](\A i \in 1..MaxTraffic : (max_id >= i) => <>Logged(i))

\* All Traffic of a full run was observed and has been reported.
C1_Witness ==
    /\ max_id = MaxTraffic
    /\ \A i \in 1..MaxTraffic :
           /\ Logged(i)
           /\ traffics[i].execution_time > 0

\* C2: conservation (safety). No Traffic id is reported twice over all
\* tick_info records, and an id reported at tick N belongs to a Traffic
\* observed at tick N or earlier.
C2_NoDoubleCount ==
    /\ \A i \in 1..max_id : LogCount(i) <= 1
    /\ \A k \in 1..Len(log) : \A i \in LoggedIds(k) :
           /\ i \in 1..max_id
           /\ traffics[i].start_time # None
           /\ traffics[i].start_time <= log[k].tick

\* Two Traffic observed at different ticks are reported in different records.
C2_Witness ==
    \E k1, k2 \in 1..Len(log) :
        /\ k1 < k2
        /\ \E i \in LoggedIds(k1) : \E j \in LoggedIds(k2) :
               traffics[i].start_time < traffics[j].start_time
        /\ \E i \in LoggedIds(k2) : traffics[i].start_time < log[k2].tick

\* The queue the replica at rpos works on in its step: its queue followed
\* by the Traffic assigned to it.
StepQueue == queue[rpos] \o replica2traffics[rpos]

\* The transition is one Replica.step.
IsReplicaStep == pc = "replicas" /\ rpos' = rpos + 1

\* Sum of the remaining times of the first n items of q before the step.
RECURSIVE PrefixRemaining(_, _)
PrefixRemaining(q, n) ==
    IF n = 0 THEN 0
    ELSE PrefixRemaining(q, n - 1) + traffics[q[n]].remaining_processing_time

\* Sum over the first n items of q of the decrease of the remaining time in
\* the step.
RECURSIVE PrefixDecrease(_, _)
PrefixDecrease(q, n) ==
    IF n = 0 THEN 0
    ELSE PrefixDecrease(q, n - 1)
         + (traffics[q[n]].remaining_processing_time
            - traffics'[q[n]].remaining_processing_time)

\* C3: capacity allocation. One step with capacity C on a queue with
\* remaining times r_1..r_n leaves item i with
\* r_i - min(r_i, max(0, C - (r_1 + ... + r_(i-1)))).
C3_CapacityAllocation ==
    [][IsReplicaStep =>
          \A i \in 1..Len(StepQueue) :
              LET r_i == traffics[StepQueue[i]].remaining_processing_time
                  budget == Max(0, replicas[rpos]
                                   - PrefixRemaining(StepQueue, i - 1))
              IN  traffics'[StepQueue[i]].remaining_processing_time
                      = r_i - Min(r_i, budget)]_vars

\* C4: per-tick budget. In one step the decrease of the remaining times,
\* summed over the queue, is at most the capacity of the replica.
C4_PerTickBudget ==
    [][IsReplicaStep =>
          PrefixDecrease(StepQueue, Len(StepQueue)) <= replicas[rpos]]_vars

\* C5: the remaining time of a Traffic never increases from one step to the
\* next and stays within [0, execution_time].
C5_RemainingMonotone ==
    [][\A i \in 1..max_id :
          /\ traffics'[i].remaining_processing_time
                 <= traffics[i].remaining_processing_time
          /\ traffics'[i].remaining_processing_time >= 0
          /\ traffics'[i].remaining_processing_time
                 <= traffics'[i].execution_time]_vars

\* The deadline of Traffic t has passed at the current tick.
DeadlinePassed(t) ==
    /\ t.start_time # None
    /\ t.expired_time # None
    /\ tick >= t.start_time + t.expired_time

\* C6: expiration enforcement. Once the replicas of a tick have stepped, a
\* Traffic with compute left whose deadline has passed is in no queue, is
\* marked expired and is reported as finished.
C6_ExpirationEnforced ==
    pc = "emit" =>
        \A i \in 1..max_id :
            (DeadlinePassed(traffics[i])
             /\ traffics[i].remaining_processing_time > 0)
            => /\ i \notin Queued
               /\ traffics[i].expired
               /\ (Logged(i) \/ i \in Range(finished_traffics))

\* Number of places of replica2traffics that hold Traffic i.
AssignCount(i) ==
    Cardinality({<<r, j>> \in (DOMAIN replica2traffics)
                              \X (1..(2 * MaxTraffic)) :
                    /\ j <= Len(replica2traffics[r])
                    /\ replica2traffics[r][j] = i})

\* C7: the mapping LoadBalancer.step returns has exactly the registered
\* replicas as keys, and every input Traffic occurs exactly once in its
\* value lists, which hold nothing but input Traffic.
C7_AssignmentPartition ==
    pc \in {"replicas", "emit"} =>
        /\ DOMAIN replica2traffics = 1..Len(replicas)
        /\ \A i \in Range(new_traffic) : AssignCount(i) = 1
        /\ \A r \in DOMAIN replica2traffics :
               Range(replica2traffics[r]) \subseteq Range(new_traffic)

\* A call that leaves one of two replicas without Traffic, and a call on
\* two Traffic.
C7_Witness ==
    /\ pc = "replicas"
    /\ Len(replicas) = 2
    /\ Len(new_traffic) = 1
    /\ \E r \in 1..2 : replica2traffics[r] = <<>>
    /\ max_id = 2

\* C8: round-robin. The k-th Traffic (0-indexed, over all calls of step) goes
\* to the replica registered at index k mod N, and the cursor is then
\* (k + 1) mod N.
C8_RoundRobin ==
    (policy = "round_robin" /\ pc \in {"replicas", "emit"}) =>
        LET N == Len(replicas)
            before == max_id - Len(new_traffic)
        IN  /\ \A j \in 1..Len(new_traffic) :
                   new_traffic[j]
                       \in Range(replica2traffics[((before + j - 1) % N) + 1])
            /\ idx = max_id % N

\* The second Traffic of a run arrives in a later call, on two replicas.
C8_Witness ==
    /\ policy = "round_robin"
    /\ pc = "replicas"
    /\ Len(replicas) = 2
    /\ max_id = 2
    /\ Len(new_traffic) = 1
    /\ replica2traffics[2] = new_traffic

\* Projected length of replica r when the j-th input Traffic is placed.
Projected(r, j) ==
    Len(queue[r])
    + Cardinality({k \in 1..(j - 1) :
                      new_traffic[k] \in Range(replica2traffics[r])})

\* C9: least-load. Each input Traffic goes to a replica of smallest
\* projected length, the first registered one among those.
C9_LeastLoad ==
    (policy = "least_load" /\ pc = "replicas" /\ rpos = 1) =>
        \A j \in 1..Len(new_traffic) :
            \E r \in 1..Len(replicas) :
                /\ new_traffic[j] \in Range(replica2traffics[r])
                /\ \A s \in 1..Len(replicas) :
                       Projected(r, j) <= Projected(s, j)
                /\ \A s \in 1..(r - 1) : Projected(s, j) > Projected(r, j)

\* The first replica is the longer one and the second one is chosen.
C9_Witness ==
    /\ policy = "least_load"
    /\ pc = "replicas"
    /\ rpos = 1
    /\ Len(replicas) = 2
    /\ Len(queue[1]) > Len(queue[2])
    /\ replica2traffics[2] # <<>>

\* Number of positions of all replica queues that hold Traffic i.
QueueCount(i) ==
    Cardinality({<<r, j>> \in (1..Len(queue)) \X (1..(2 * MaxTraffic)) :
                    /\ j <= Len(queue[r])
                    /\ queue[r][j] = i})

\* C10: single ownership. Every Traffic occurs in at most one replica's
\* queue, and at most once inside that queue.
C10_SingleOwnership ==
    \A i \in 1..max_id : QueueCount(i) <= 1

\* Two replicas hold Traffic at the same time.
C10_Witness ==
    /\ Len(queue) >= 2
    /\ queue[1] # <<>>
    /\ queue[2] # <<>>
\* C11: completion sweep. When a step has returned, no item with remaining
\* time 0 is left in the queue of the replica: every such item has its
\* finish_time stamped and was removed and returned.
C11_CompletionSweep ==
    \A i \in Queued : traffics[i].remaining_processing_time # 0

\* The items of q that were created with a positive execution_time.
RECURSIVE WithoutZeroExec(_)
WithoutZeroExec(q) ==
    IF q = <<>> THEN <<>>
    ELSE IF traffics[Head(q)].execution_time = 0
         THEN WithoutZeroExec(Tail(q))
         ELSE <<Head(q)>> \o WithoutZeroExec(Tail(q))

\* C12: a Traffic with execution_time 0 is returned by the first step it is
\* passed to, with finish_time equal to that tick, and the other items get
\* the compute they would get without it.
C12_ZeroExecution ==
    [][IsReplicaStep =>
          /\ \A j \in 1..Len(replica2traffics[rpos]) :
                 LET i == replica2traffics[rpos][j]
                 IN  traffics[i].execution_time = 0
                     => /\ traffics'[i].finish_time = tick
                        /\ i \notin Range(queue'[rpos])
                        /\ i \in Range(finished_traffics')
          /\ LET others == WithoutZeroExec(StepQueue)
                 alone == Allocate(others, 1, traffics, 0, replicas[rpos])
             IN  \A j \in 1..Len(others) :
                     traffics'[others[j]].remaining_processing_time
                         = alone[others[j]].remaining_processing_time]_vars

\* C13: at the end of a tick a Traffic has finish_time set exactly when it
\* is in no queue; a Traffic with finish_time set has remaining time 0, and
\* a finish_time that is set never changes.
C13_FinishTimeIffLeftQueue ==
    /\ [](pc \in {"emit", "observe", "done"} =>
             \A i \in 1..max_id :
                 /\ (traffics[i].finish_time # None) <=> (i \notin Queued)
                 /\ traffics[i].finish_time # None
                        => traffics[i].remaining_processing_time = 0)
    /\ [][\A i \in 1..max_id :
             traffics[i].finish_time # None
                 => traffics'[i].finish_time = traffics[i].finish_time]_vars

\* At the end of a tick one Traffic has finished at an earlier tick and
\* another one is still queued.
C13_Witness ==
    /\ pc = "emit"
    /\ \E i \in 1..max_id :
           /\ traffics[i].finish_time # None
           /\ traffics[i].finish_time < tick
    /\ \E i \in 1..max_id :
           /\ i \in Queued
           /\ traffics[i].finish_time = None
\* C14: the first Clock.step returns 0, every call adds exactly 1, and the
\* tick changes only where the loop calls clock.step (once per iteration):
\* it never decreases and is never reset.
C14_Clock ==
    [][/\ pc = "observe" => tick' = tick + 1
       /\ pc # "observe" => tick' = tick
       /\ (pc = "observe" /\ log = <<>>) => tick' = 0
       /\ (pc' = "observe" /\ pc # "observe") => pc = "emit"]_vars

C14_Witness == tick >= 2 /\ pc = "lb"

\* C15: the log holds exactly one tick_info record per processed tick, in
\* the order 0, 1, 2, ..., and the record of tick N is in the log before
\* the clock moves to N + 1.
C15_TraceOrdering ==
    /\ \A k \in 1..Len(log) : log[k].tick = k - 1
    /\ Len(log) = IF pc \in {"observe", "done"} THEN tick + 1 ELSE tick

C15_Witness == Len(log) >= 3 /\ pc = "observe"

\* C16: the loop eventually stops, it stops right after the tick equal
\* to max_tick (ticks 0..max_tick are processed, none after), and no tick
\* is processed twice.
C16_Termination ==
    /\ <>(pc = "done")
    /\ [](tick <= max_tick)
    /\ [](pc = "done" => /\ tick = max_tick
                         /\ {log[k].tick : k \in 1..Len(log)} = 0..max_tick)
    /\ [](\A j, k \in 1..Len(log) : log[j].tick = log[k].tick => j = k)

C16_Witness == pc = "done" /\ max_id = MaxTraffic /\ Len(log) = max_tick + 1
\* C20: strict head-of-line priority. In one step the remaining time of
\* the item at position j changes only if every item ahead of it ends the
\* step with remaining time 0, and no item is touched once the items ahead
\* of it have used up the capacity.
C20_HeadOfLine ==
    [][IsReplicaStep =>
          \A j \in 1..Len(StepQueue) :
              traffics'[StepQueue[j]].remaining_processing_time
                      # traffics[StepQueue[j]].remaining_processing_time
                  => /\ \A k \in 1..(j - 1) :
                            traffics'[StepQueue[k]].remaining_processing_time
                                = 0
                     /\ PrefixDecrease(StepQueue, j - 1) < replicas[rpos]]_vars
\* C18: a round-robin load balancer with no registered replica fails with
\* a configuration error before the run starts: its step never returns an
\* assignment, not even for an empty list of Traffic, and never fails in
\* the middle of a run.
C18_NoReplicaFailsAtSetup ==
    (policy = "round_robin" /\ Len(replicas) = 0)
        => /\ pc # "emit"
           /\ pc # "IndexError"
\* C19: the factories return the variant registered under the name, the
\* declared default (round_robin, accelerator) for the name None, and
\* raise exactly when the name is neither None nor registered.
C19_FactoryLookup ==
    [][pc = "setup" =>
          LET lb_name == IF lb_type = NoName THEN "round_robin" ELSE lb_type
              replica_name == IF replica_type = NoName THEN "accelerator"
                              ELSE replica_type
              raises == \/ lb_name \notin LB_POLICIES
                        \/ replica_name \notin REPLICA_TYPES
          IN  /\ raises <=> pc' = "ValueError"
              /\ ~raises => policy' = lb_name]_vars
\* C17: determinism. The second of two runs with the same fixed arrival
\* sequence, replicas and policy in one process emits the same tick_info
\* records as the first, Traffic ids included.
C17_Determinism ==
    (run = 2 /\ pc = "done") => log = first_log
\* The items of q that are in S, in the order of q.
RECURSIVE Restrict(_, _)
Restrict(q, S) ==
    IF q = <<>> THEN <<>>
    ELSE IF Head(q) \in S THEN <<Head(q)>> \o Restrict(Tail(q), S)
         ELSE Restrict(Tail(q), S)

\* The list the replica step of this transition returned.
Returned ==
    SubSeq(finished_traffics', Len(finished_traffics) + 1,
           Len(finished_traffics'))

DeadlineReached(t, tick_arg) ==
    /\ t.start_time # None
    /\ t.expired_time # None
    /\ tick_arg >= t.start_time + t.expired_time

\* C22 as stated: finished(tick) returns true, with expired latched, if
\* and only if expired_time is set and tick >= start_time + expired_time;
\* once expired is true a further call returns true again and changes
\* neither expired nor finish_time.
C22_DeadlineCheck_Original ==
    [][pc = "call" =>
          /\ ret' <=> DeadlineReached(probe, current_tick')
          /\ ret' => probe'.expired
          /\ probe.expired => /\ ret'
                              /\ probe'.expired
                              /\ probe'.finish_time = probe.finish_time]_vars

\* C22 amended: finished(tick) returns true if and only if the remaining
\* time is at most 0 or the deadline has passed; it latches expired exactly
\* when the deadline has passed and the remaining time is positive, and
\* changes nothing else; once expired is true a further call with the same
\* or a later tick returns true again and changes neither expired nor
\* finish_time.
C22_DeadlineCheck ==
    [][pc = "call" =>
          /\ ret' <=> \/ probe.remaining_processing_time <= 0
                      \/ DeadlineReached(probe, current_tick')
          /\ probe'.expired
                <=> \/ probe.expired
                    \/ /\ probe.remaining_processing_time > 0
                       /\ DeadlineReached(probe, current_tick')
          /\ probe' = [probe EXCEPT !.expired = probe'.expired]
          /\ probe.expired => ret' /\ probe'.expired]_vars

\* A call on a Traffic that an earlier call had latched as expired.
C22_Witness ==
    /\ pc = "call"
    /\ probe.expired
    /\ ret
    /\ current_tick > probe.start_time + probe.expired_time
\* C23: latency in the trace. Every entry (id, latency, expired) with
\* expired = false in the record of tick N has latency = N - start_time,
\* where start_time is the tick at which the Traffic was observed, so the
\* latency is defined and at least 0; latency() is None for a Traffic
\* whose finish_time or start_time is unset.
C23_TraceLatency ==
    /\ [](\A k \in 1..Len(log) :
              \A j \in 1..Len(log[k].finished_traffics) :
                  LET entry == log[k].finished_traffics[j]
                  IN  entry[3] = FALSE
                          => /\ traffics[entry[1]].start_time # None
                             /\ entry[2] = log[k].tick
                                               - traffics[entry[1]].start_time
                             /\ entry[2] >= 0)
    /\ [](\A i \in 1..max_id :
              (traffics[i].finish_time = None \/ traffics[i].start_time = None)
                  => latency(traffics[i]) = None)
    /\ [][\A i \in 1..max_id' :
              traffics'[i].start_time = IF i > max_id THEN tick'
                                       ELSE traffics[i].start_time]_vars

\* A record holds a Traffic that finished after the tick it was observed.
C23_Witness ==
    \E k \in 1..Len(log) :
        \E j \in 1..Len(log[k].finished_traffics) :
            /\ log[k].finished_traffics[j][2] >= 1
            /\ log[k].finished_traffics[j][3] = FALSE
\* C24: head progress. In a replica step on a non-empty queue the first
\* item loses exactly min(its remaining time, capacity), and when that
\* leaves it with 0 it is removed and returned by that step.
C24_HeadProgress ==
    [][(IsReplicaStep /\ Len(StepQueue) > 0) =>
          LET head == StepQueue[1]
              r == traffics[head].remaining_processing_time
          IN  /\ traffics'[head].remaining_processing_time
                     = r - Min(r, replicas[rpos])
              /\ traffics'[head].remaining_processing_time = 0
                     => /\ head \notin Range(queue'[rpos])
                        /\ head \in Range(Returned)]_vars

\* The head of a queue has been worked on and is still unfinished.
C24_Witness ==
    /\ pc = "emit"
    /\ \E r \in 1..Len(queue) :
           /\ queue[r] # <<>>
           /\ traffics[queue[r][1]].remaining_processing_time > 0
           /\ traffics[queue[r][1]].remaining_processing_time
                  < traffics[queue[r][1]].execution_time

\* C25: non-negativity. No Traffic ever has a negative
\* remaining_processing_time, whatever the capacities and the queues.
C25_NonNegative ==
    \A i \in 1..max_id : traffics[i].remaining_processing_time >= 0

\* A step has moved the remaining time of a Traffic away from the range
\* 0..execution_time on the upper side.
C25_Witness ==
    \E i \in 1..max_id :
        traffics[i].remaining_processing_time > traffics[i].execution_time
====
